---- MODULE Spec2Model ----
(***************************************************************************)
(* Payment microservice: the HTTP boundary (payments_api.py), the payment  *)
(* controller (controllers/payment_controller.py), the payment store the   *)
(* controller delegates to, and the order system reached through KrakenD.  *)
(*                                                                         *)
(* Each worker thread of the Flask server serves one request at a time.    *)
(* POST /payments and GET /payments/<id> are one step each (one store      *)
(* call); POST /payments/process/<id> is a sequence of steps (charge       *)
(* simulation and store update, PUT sent, PUT answered) that interleave    *)
(* with the other worker.                                                  *)
(***************************************************************************)
EXTENDS Integers, Sequences, FiniteSets, TLC

\* ------------------------------------------------------------------ bounds

\* The store holds at most this many payments.
MaxPayments == 2

\* Worker threads serving requests concurrently.
Threads == {"w1", "w2"}

\* Values a creation payload draws its fields from.
Orders == {41, 42}
Users == {7}
Amounts == {20}

\* Payment ids a request may name: the ids the store can assign, so that a
\* request can name a payment that does not exist (yet).
PaymentIds == 1..MaxPayments

\* Python's None: what dict.get returns for a missing key.
None == 0

\* ------------------------------------------------------------ request bodies

\* What request.get_json() sees.  "object" is a JSON object, "null" the JSON
\* null, "array" a non-empty JSON array (any truthy non-object value),
\* "malformed" a body that is not JSON (get_json raises).
AddBodies ==
    {[kind |-> "object", order_id |-> o, user_id |-> u, total_amount |-> a] :
        o \in Orders \cup {None}, u \in Users, a \in Amounts}
    \cup {[kind |-> k, order_id |-> None, user_id |-> None, total_amount |-> None] :
        k \in {"null", "array", "malformed"}}

\* A creation payload is valid when it is an object carrying the three fields.
ValidPayload(body) ==
    /\ body.kind = "object"
    /\ body.order_id # None
    /\ body.user_id # None
    /\ body.total_amount # None

\* "object": a card with its three fields (whatever their content);
\* "empty_object": {}.
ProcessBodies == {"object", "empty_object", "null", "array", "malformed"}

\* request.get_json(): the parsed value, or a raised BadRequest.
get_json(kind) ==
    IF kind = "malformed"
    THEN [ret |-> "raise", val |-> "none"]
    ELSE [ret |-> "return", val |-> kind]

\* `request.get_json() or {}`: a falsy value (None, {}) becomes {}.
or_empty(val) ==
    IF val \in {"null", "empty_object"} THEN "empty_object" ELSE val

\* ------------------------------------------------------------------- store

\* commands.write_payment.create_payment(order_id, user_id, total_amount):
\* the outcomes of the call on store `pay`.  With the three values present it
\* appends a record, unpaid, and returns its id (ids count from 1); otherwise
\* it returns an error value that is not a number, or raises.
create_payment(pay, order_id, user_id, total_amount) ==
    IF order_id # None /\ user_id # None /\ total_amount # None
    THEN {[ret |-> "return",
           val |-> [num |-> TRUE, id |-> Len(pay) + 1],
           store |-> Append(pay, [order_id |-> order_id, user_id |-> user_id,
                                  total_amount |-> total_amount,
                                  is_paid |-> FALSE])]}
    ELSE {[ret |-> "return", val |-> [num |-> FALSE, id |-> None], store |-> pay],
          [ret |-> "raise", val |-> [num |-> FALSE, id |-> None], store |-> pay]}

\* queries.read_payment.get_payment_by_id(payment_id): the record, or for an
\* unknown id either an empty value or a raised fault.
get_payment_by_id(pay, payment_id) ==
    IF payment_id \in 1..Len(pay)
    THEN {[ret |-> "return",
           val |-> [kind |-> "payment", payment_id |-> payment_id,
                    order_id |-> pay[payment_id].order_id,
                    user_id |-> pay[payment_id].user_id,
                    total_amount |-> pay[payment_id].total_amount,
                    is_paid |-> pay[payment_id].is_paid]]}
    ELSE {[ret |-> "return", val |-> [kind |-> "not_found"]],
          [ret |-> "raise", val |-> [kind |-> "not_found"]]}

\* commands.write_payment.update_status_to_paid(payment_id): marks the
\* payment paid and returns {order_id, payment_id, is_paid}; for an unknown
\* id it raises, or returns a result that carries no order id, or returns the
\* three fields with no order and is_paid false (nothing was marked).
update_status_to_paid(pay, payment_id) ==
    IF payment_id \in 1..Len(pay)
    THEN {[ret |-> "return",
           val |-> [has_order |-> TRUE, order_id |-> pay[payment_id].order_id,
                    payment_id |-> payment_id, is_paid |-> TRUE],
           store |-> [pay EXCEPT ![payment_id].is_paid = TRUE]]}
    ELSE {[ret |-> "return",
           val |-> [has_order |-> FALSE, order_id |-> None,
                    payment_id |-> payment_id, is_paid |-> FALSE],
           store |-> pay],
          [ret |-> "return",
           val |-> [has_order |-> TRUE, order_id |-> None,
                    payment_id |-> payment_id, is_paid |-> FALSE],
           store |-> pay],
          [ret |-> "raise",
           val |-> [has_order |-> FALSE, order_id |-> None,
                    payment_id |-> payment_id, is_paid |-> FALSE],
           store |-> pay]}

\* -------------------------------------------------------------- order system

\* HTTP statuses the gateway answers the PUT with.
Statuses == {200, 201, 202, 204, 500}

\* What requests.put(url, json=payload, timeout=5) ends with: a response, a
\* requests.exceptions.Timeout, a requests.exceptions.ConnectionError, or any
\* other Exception raised while the request is built or sent.
NoOutcome == [kind |-> "none", status |-> None]
PutOutcomes ==
    {[kind |-> "response", status |-> s] : s \in Statuses}
    \cup {[kind |-> k, status |-> None] :
            k \in {"timeout", "connection_error", "other_fault"}}

\* The order system has taken the notification in when it answered the PUT
\* with a 2xx status.
Acknowledged(outcome) ==
    outcome.kind = "response" /\ outcome.status \in 200..299

\* -------------------------------------------------------------- controller

ErrorBody == [kind |-> "error"]
NoBody == [kind |-> "none"]
NoResp == [status |-> None, body |-> NoBody]
NoUpdate == [has_order |-> FALSE, order_id |-> None, payment_id |-> None,
             is_paid |-> FALSE]
NoNotif == [ret |-> "none", val |-> FALSE]
NoAddBody == [kind |-> "none", order_id |-> None, user_id |-> None,
              total_amount |-> None]

\* add_payment with the first two arguments of create_payment exchanged.
add_payment_args_swapped(body) ==
    [order_id |-> body.user_id, user_id |-> body.order_id,
     total_amount |-> body.total_amount]

\* add_payment, lines 29-33: the three fields read from the payload, in the
\* order create_payment takes them.
add_payment_args(body) ==
    [order_id |-> body.order_id, user_id |-> body.user_id,
     total_amount |-> body.total_amount]

\* add_payment, lines 34-37: a numeric result is the id, anything else is
\* surfaced as an error string.
add_payment_result(result) ==
    IF result.num
    THEN [kind |-> "payment_id", payment_id |-> result.id]
    ELSE ErrorBody

\* add_payment(request): the outcomes of the call on store `pay`.  A body that
\* is not JSON makes get_json raise; a JSON array has no .get and raises
\* AttributeError; both before the store is called.
add_payment(pay, body) ==
    IF get_json(body.kind).ret = "raise" \/ or_empty(body.kind) = "array"
    THEN {[ret |-> "raise", val |-> ErrorBody, store |-> pay]}
    ELSE LET args == add_payment_args(body) IN
         {IF out.ret = "raise"
          THEN [ret |-> "raise", val |-> ErrorBody, store |-> out.store]
          ELSE [ret |-> "return", val |-> add_payment_result(out.val),
                store |-> out.store] :
             out \in create_payment(pay, args.order_id, args.user_id,
                                    args.total_amount)}

\* get_payment(payment_id): the store's answer, passed through.
get_payment(pay, payment_id) == get_payment_by_id(pay, payment_id)

\* _process_credit_card_payment(payment_data): reads three fields with .get
\* to log them.  A dict of any content returns; a value without .get raises
\* AttributeError.
_process_credit_card_payment(card) ==
    IF card \in {"object", "empty_object"} THEN "return" ELSE "raise"

\* _notify_store_manager without the `except Timeout` and `except Exception`
\* branches: a timeout escapes.
_notify_store_manager_timeout_escapes(outcome) ==
    IF outcome.kind = "response"
    THEN [ret |-> "return", val |-> outcome.status \in {200, 201, 204}]
    ELSE IF outcome.kind = "timeout"
    THEN [ret |-> "raise", val |-> FALSE]
    ELSE [ret |-> "return", val |-> FALSE]

\* _notify_store_manager without the final `except Exception` branch: a fault
\* that is neither a timeout nor a connection error escapes.
_notify_store_manager_fault_escapes(outcome) ==
    IF outcome.kind = "response"
    THEN [ret |-> "return", val |-> outcome.status \in {200, 201, 204}]
    ELSE IF outcome.kind = "other_fault"
    THEN [ret |-> "raise", val |-> FALSE]
    ELSE [ret |-> "return", val |-> FALSE]

\* _notify_store_manager without the status test: any response is a success.
_notify_store_manager_any_response(outcome) ==
    [ret |-> "return", val |-> outcome.kind = "response"]

\* _notify_store_manager testing for any 2xx status.
_notify_store_manager_any_2xx(outcome) ==
    IF outcome.kind = "response"
    THEN [ret |-> "return", val |-> outcome.status \in 200..299]
    ELSE [ret |-> "return", val |-> FALSE]

\* _notify_store_manager, lines 93-108: the boolean the outcome of the PUT
\* collapses to.
_notify_store_manager(outcome) ==
    IF outcome.kind = "response"
    THEN [ret |-> "return", val |-> outcome.status \in {200, 201, 204}]
    ELSE [ret |-> "return", val |-> FALSE]

\* _notify_store_manager sending the PUT again after a failed attempt.
next_after_notify_retry(notif) ==
    IF notif.ret = "return" /\ notif.val THEN "done" ELSE "notify"

\* process_payment undoing the update in a cleanup handler when the call is
\* interrupted during the notification.
store_after_notify_rollback_cancelled(pay, update_result, notif) ==
    IF notif.ret = "raise"
    THEN [pay EXCEPT ![update_result.payment_id].is_paid = FALSE]
    ELSE pay

\* process_payment with an idempotency guard: a payment that was already paid
\* is not notified again and the call is refused.
notification_due_guarded(pre, out) ==
    pre # "paid" /\ out.ret = "return" /\ out.val.has_order

\* process_payment reading the order id with .get: a result without order_id
\* no longer stops the call before the notification.
notification_due_on_return(pre, out) == out.ret = "return"

\* process_payment notifying in a `finally` clause: the notification runs
\* whatever the store call did.
notification_due_always(pre, out) == TRUE

\* process_payment passing the payment id where the order id is expected.
notify_args_swapped(update_result, payment_id) ==
    [order_id |-> payment_id, payment_id |-> update_result.order_id]

\* requests.put called without a timeout.
put_timeout_none == None

\* update_result kept in a module-level variable: the result is built from
\* what the other worker's call stored there, when it has.
shared_update(workers, t) ==
    LET others == {u \in DOMAIN workers :
                     u # t /\ workers[u].op = "process" /\ workers[u].upd.has_order}
    IN IF others = {} THEN workers[t].upd
       ELSE workers[CHOOSE u \in others : TRUE].upd

\* process_payment calling the store with a fixed id left from a trial.
process_payment_update_first(pay, payment_id) == update_status_to_paid(pay, 1)

\* process_payment marking the payment unpaid again when the notification
\* failed.
store_after_notify_rollback(pay, update_result, notif) ==
    IF notif.ret = "return" /\ notif.val
    THEN pay
    ELSE [pay EXCEPT ![update_result.payment_id].is_paid = FALSE]

\* _notify_store_manager, lines 93-108: every branch returns; whatever the
\* outcome, the call goes on to build its result and no second PUT is sent.
next_after_notify(notif) == "done"

\* process_payment, lines 52-61: nothing is called on the store once the
\* notification has ended, whatever its result (no rollback).
store_after_notify(pay, update_result, notif) == pay

\* process_payment, line 48: the store call, with the id of the request.
process_payment_update(pay, payment_id) == update_status_to_paid(pay, payment_id)

\* process_payment, lines 48-52: the notification runs once the update has
\* returned a result that carries order_id (line 49 reads it), whatever state
\* `pre` the payment was in before: no check guards a payment already paid.
notification_due(pre, out) == out.ret = "return" /\ out.val.has_order

\* process_payment, line 52: what _notify_store_manager is called with.
notify_args(update_result, payment_id) ==
    [order_id |-> update_result.order_id, payment_id |-> payment_id]

\* _notify_store_manager, lines 79-82: the JSON body of the PUT.
NoPut == [order_id |-> None, is_paid |-> FALSE]
put_payload(order_id, payment_id) == [order_id |-> order_id, is_paid |-> TRUE]

\* _notify_store_manager, line 89: the timeout of the PUT, in seconds (None
\* would wait for the gateway without limit).
put_timeout == 5

\* process_payment, lines 48-59: update_result is a local of the call; the
\* result of worker t is built from its own.
own_update(workers, t) == workers[t].upd

\* _notify_store_manager and post_process_payment catch Exception only: when
\* the worker is interrupted while the PUT is pending (a BaseException), no
\* boolean is produced.
Interrupted == [ret |-> "raise", val |-> FALSE]

\* process_payment, lines 54-61: the result built from the store's update
\* result and the notification's boolean.
process_payment_result(update_result, notification_result) ==
    [kind |-> "result",
     order_id |-> update_result.order_id,
     payment_id |-> update_result.payment_id,
     is_paid |-> update_result.is_paid,
     store_notified |-> notification_result]

\* ------------------------------------------------------------ HTTP boundary

\* post_add_payment: 201 with whatever add_payment returned, 400 on a fault.
post_add_payment(out) ==
    IF out.ret = "return"
    THEN [status |-> 201, body |-> out.val]
    ELSE [status |-> 400, body |-> ErrorBody]

\* post_process_payment: 200 with the result, 400 on a fault.
post_process_payment(ret, val) ==
    IF ret = "return"
    THEN [status |-> 200, body |-> val]
    ELSE [status |-> 400, body |-> ErrorBody]

\* get_payment_details: 200 with whatever get_payment returned, 404 on a fault.
get_payment_details(out) ==
    IF out.ret = "return"
    THEN [status |-> 200, body |-> out.val]
    ELSE [status |-> 404, body |-> ErrorBody]

\* -------------------------------------------------------------------- state

VARIABLES
    payments,   \* the store: payments[id] is the record of payment id
    th,         \* th[t]: the request worker t serves and how far it is
    created,    \* created[id]: the payload add_payment was given for id
    flips,      \* flips[id]: how often the paid flag of id went false -> true
    delivered   \* the orders the order system acknowledged a PUT for

vars == <<payments, th, created, flips, delivered>>

\* How the store holds payment `id` when a request that names it arrives.
payment_state(pay, id) ==
    IF id \notin 1..Len(pay) THEN "unknown"
    ELSE IF pay[id].is_paid THEN "paid" ELSE "unpaid"

Idle ==
    [pc |-> "idle", op |-> "none", pid |-> None, pre |-> "none",
     body |-> NoAddBody,
     card |-> "none", upd |-> NoUpdate, sent |-> 0, put |-> NoPut,
     outcome |-> NoOutcome,
     notif |-> NoNotif, ctl |-> "none", resp |-> NoResp]

Init ==
    /\ payments = <<>>
    /\ th = [t \in Threads |-> Idle]
    /\ created = <<>>
    /\ flips = <<>>
    /\ delivered = {}

\* ------------------------------------------------------------------ actions

\* POST /payments: post_add_payment around add_payment, one store call.
AddPayment(t) ==
    /\ th[t].pc = "idle"
    /\ \E body \in AddBodies :
         \E out \in add_payment(payments, body) :
            /\ Len(out.store) <= MaxPayments
            /\ payments' = out.store
            /\ created' = IF Len(out.store) > Len(payments)
                          THEN Append(created, body) ELSE created
            /\ flips' = IF Len(out.store) > Len(payments)
                        THEN Append(flips, 0) ELSE flips
            /\ th' = [th EXCEPT ![t] =
                        [Idle EXCEPT !.pc = "done", !.op = "add",
                                     !.body = body, !.ctl = out.ret,
                                     !.resp = post_add_payment(out)]]
    /\ UNCHANGED delivered

\* GET /payments/<id>: get_payment_details around get_payment.
GetPayment(t) ==
    /\ th[t].pc = "idle"
    /\ \E id \in PaymentIds :
         \E out \in get_payment(payments, id) :
            th' = [th EXCEPT ![t] =
                     [Idle EXCEPT !.pc = "done", !.op = "get", !.pid = id,
                                  !.pre = payment_state(payments, id),
                                  !.ctl = out.ret,
                                  !.resp = get_payment_details(out)]]
    /\ UNCHANGED <<payments, created, flips, delivered>>

\* The card data post_process_payment hands to process_payment for a body
\* of this kind (line 75), and whether reading the body or the charge
\* simulation (process_payment, line 44) ends in a fault.
card_data(kind) == or_empty(get_json(kind).val)
charge_fault(kind) ==
    \/ get_json(kind).ret = "raise"
    \/ _process_credit_card_payment(card_data(kind)) = "raise"

\* POST /payments/process/<id> when reading the body or simulating the charge
\* raises: the fault ends the request at the boundary, before the store is
\* called.
ProcessReject(t) ==
    /\ th[t].pc = "idle"
    /\ \E id \in PaymentIds, kind \in ProcessBodies :
         /\ charge_fault(kind)
         /\ th' = [th EXCEPT ![t] =
                     [Idle EXCEPT
                        !.pc = "done", !.op = "process", !.pid = id,
                        !.pre = payment_state(payments, id),
                        !.card = IF get_json(kind).ret = "raise"
                                 THEN "none" ELSE card_data(kind),
                        !.ctl = "raise",
                        !.resp = post_process_payment("raise", ErrorBody)]]
    /\ UNCHANGED <<payments, created, flips, delivered>>

\* POST /payments/process/<id> up to the store update: the body is read, the
\* charge is simulated (both touch nothing shared) and the store marks the
\* payment paid (process_payment, lines 44-49); the log line reads
\* update_result['order_id'], a KeyError when it is missing.  The card data
\* is read by the charge simulation only: once that has returned, the worker
\* keeps no more of it than that the charge passed.
ProcessUpdate(t) ==
    /\ th[t].pc = "idle"
    /\ \E id \in PaymentIds, kind \in ProcessBodies :
         /\ ~charge_fault(kind)
         /\ \E out \in process_payment_update(payments, id) :
              LET started == [Idle EXCEPT
                                !.op = "process", !.pid = id,
                                !.pre = payment_state(payments, id),
                                !.card = "charged"]
              IN /\ payments' = out.store
                 /\ flips' = [i \in DOMAIN flips |->
                                IF ~payments[i].is_paid /\ out.store[i].is_paid
                                THEN flips[i] + 1 ELSE flips[i]]
                 /\ th' = [th EXCEPT ![t] =
                             IF notification_due(payment_state(payments, id), out)
                             THEN [started EXCEPT !.pc = "notify",
                                                  !.upd = out.val]
                             ELSE [started EXCEPT
                                     !.pc = "done", !.ctl = "raise",
                                     !.resp = post_process_payment("raise", ErrorBody)]]
    /\ UNCHANGED <<created, delivered>>

\* _notify_store_manager, lines 75-90: the PUT leaves for the gateway.
NotifySend(t) ==
    /\ th[t].pc = "notify"
    /\ LET args == notify_args(th[t].upd, th[t].pid)
       IN th' = [th EXCEPT ![t] =
                   [@ EXCEPT !.pc = "await", !.sent = @ + 1,
                             !.put = put_payload(args.order_id, args.payment_id)]]
    /\ UNCHANGED <<payments, created, flips, delivered>>

\* _notify_store_manager, lines 93-108, then process_payment, lines 54-61, and
\* post_process_payment, line 77: the PUT of worker t ends with `outcome`, the
\* outcome collapses to a boolean, the result is built and answered.  The
\* order system marks the order of the PUT it acknowledges, when the PUT names
\* one.
EndPut(t, outcome) ==
    LET notif == _notify_store_manager(outcome)
        ret == IF notif.ret = "return" THEN "return" ELSE "raise"
        val == IF notif.ret = "return"
               THEN process_payment_result(own_update(th, t), notif.val)
               ELSE ErrorBody
    IN /\ th' = [th EXCEPT ![t] =
                   [@ EXCEPT !.pc = next_after_notify(notif),
                             !.outcome = outcome,
                             !.notif = notif, !.ctl = ret,
                             !.resp = post_process_payment(ret, val)]]
       /\ delivered' = IF Acknowledged(outcome) /\ th[t].put.order_id # None
                       THEN delivered \cup {th[t].put.order_id}
                       ELSE delivered
       /\ payments' = store_after_notify(payments, th[t].upd, notif)
       /\ UNCHANGED <<created, flips>>

\* The gateway answers the PUT, or sending it fails.
NotifyReceive(t) ==
    /\ th[t].pc = "await"
    /\ \E outcome \in PutOutcomes :
         /\ outcome.kind # "timeout"
         /\ EndPut(t, outcome)

\* No answer within the timeout: requests raises Timeout (line 100).
NotifyTimeout(t) ==
    /\ th[t].pc = "await"
    /\ put_timeout # None
    /\ EndPut(t, [kind |-> "timeout", status |-> None])

\* The worker is interrupted while the PUT is pending: the request is
\* abandoned without a response.  Nothing is called on the store.
NotifyCancel(t) ==
    /\ th[t].pc = "await"
    /\ th' = [th EXCEPT ![t] = [@ EXCEPT !.pc = "done", !.ctl = "cancelled"]]
    /\ payments' = store_after_notify(payments, th[t].upd, Interrupted)
    /\ UNCHANGED <<created, flips, delivered>>

\* The client has its response; the worker takes the next request.
Finish(t) ==
    /\ th[t].pc = "done"
    /\ th' = [th EXCEPT ![t] = Idle]
    /\ UNCHANGED <<payments, created, flips, delivered>>

Next ==
    \E t \in Threads :
        \/ AddPayment(t)
        \/ GetPayment(t)
        \/ ProcessReject(t)
        \/ ProcessUpdate(t)
        \/ NotifySend(t)
        \/ NotifyReceive(t)
        \/ NotifyTimeout(t)
        \/ NotifyCancel(t)
        \/ Finish(t)

Spec == Init /\ [][Next]_vars

\* A worker that is serving a request keeps running its handler, and the
\* timeout of the PUT elapses when nothing else ends it.  Nothing obliges a
\* client to send a request, the gateway to answer, or an interrupt to come.
FairSpec ==
    /\ Spec
    /\ \A t \in Threads : WF_vars(NotifySend(t)) /\ WF_vars(NotifyTimeout(t))

\* ------------------------------------------------------------------ claims

ProcessDone(t) == th[t].pc = "done" /\ th[t].op = "process"

\* The PUT of worker t has ended (its outcome is known).
Notified(t) == th[t].outcome.kind # "none"

\* The notification failed: a status other than 200/201/204, a timeout, a
\* connection error or any other fault.
FailedNotification(outcome) ==
    \/ outcome.kind \in {"timeout", "connection_error", "other_fault"}
    \/ outcome.kind = "response" /\ outcome.status \notin {200, 201, 204}

\* C1: a process_payment call whose store update succeeded and whose
\* notification failed in any way still returns normally (no exception reaches
\* the caller), with store_notified = false and is_paid = true.
C1_FailedNotifyStillReturns ==
    \A t \in Threads :
        (/\ ProcessDone(t)
         /\ th[t].upd.has_order /\ th[t].upd.is_paid
         /\ Notified(t) /\ FailedNotification(th[t].outcome))
        => /\ th[t].ctl = "return"
           /\ th[t].resp.status = 200
           /\ th[t].resp.body.kind = "result"
           /\ th[t].resp.body.store_notified = FALSE
           /\ th[t].resp.body.is_paid = TRUE

C1_Witness ==
    \E t \in Threads :
        /\ ProcessDone(t)
        /\ th[t].upd.is_paid
        /\ th[t].outcome.kind = "connection_error"
        /\ th[t].ctl = "return"
        /\ th[t].resp.body.kind = "result"
        /\ ~th[t].resp.body.store_notified
        /\ th[t].resp.body.is_paid

\* No request is being served: nothing is left that could send a PUT.
Quiescent == \A t \in Threads : th[t].pc \in {"idle", "done"}

\* C2 as stated: the notification is at-least-once, every payment marked paid
\* has a successful notification delivered for its order.  A protocol that
\* keeps this promise has a delivery pending until it succeeds; once no
\* request is being served nothing is pending, so every paid payment's order
\* must have been acknowledged by then.
C2_AtLeastOnce ==
    Quiescent =>
        \A id \in 1..Len(payments) :
            payments[id].is_paid => payments[id].order_id \in delivered

\* C2 amended: the notification is a single attempt per call.  The order
\* system has acknowledged a paid notification for the order of every call
\* that answered store_notified = true for a payment the store marked
\* (is_paid = true), and that payment is paid in the store;
\* a call whose attempt failed answers store_notified = false and nothing is
\* sent for it later.
C2_NotifiedMeansDelivered ==
    \A t \in Threads :
        (/\ ProcessDone(t)
         /\ th[t].resp.status = 200
         /\ th[t].resp.body.store_notified
         /\ th[t].resp.body.is_paid)
        => /\ th[t].resp.body.order_id \in delivered
           /\ payments[th[t].pid].is_paid
           /\ payments[th[t].pid].order_id = th[t].resp.body.order_id

C2_Witness ==
    \E t \in Threads :
        /\ ProcessDone(t)
        /\ th[t].resp.status = 200
        /\ th[t].resp.body.store_notified
        /\ th[t].resp.body.order_id \in delivered

\* C3: notify returns true exactly when the PUT was answered with status 200,
\* 201 or 204, false for every other status (202 included) and every
\* transport failure, and store_notified in the result is that boolean.
C3_NotifyTrueIffSuccessStatus ==
    \A t \in Threads :
        Notified(t) =>
            /\ th[t].notif.ret = "return"
            /\ th[t].notif.val =
                 (/\ th[t].outcome.kind = "response"
                  /\ th[t].outcome.status \in {200, 201, 204})
            /\ th[t].resp.body.kind = "result"
            /\ th[t].resp.body.store_notified = th[t].notif.val

C3_Witness ==
    \E t \in Threads :
        /\ Notified(t)
        /\ th[t].outcome.kind = "response"
        /\ th[t].outcome.status = 202
        /\ th[t].notif.val = FALSE
        /\ th[t].resp.body.kind = "result"
        /\ th[t].resp.body.store_notified = FALSE

\* C4: no exception escapes notify: whatever the PUT ends with, the
\* operation ends by returning a boolean.
C4_NotifyNeverRaises ==
    \A t \in Threads :
        Notified(t) =>
            /\ th[t].notif.ret = "return"
            /\ th[t].notif.val \in BOOLEAN
            /\ th[t].ctl = "return"

C4_Witness ==
    \E t \in Threads :
        /\ th[t].outcome.kind = "other_fault"
        /\ th[t].notif.ret = "return"
        /\ th[t].notif.val = FALSE

\* C5: a process_payment call sends at most one PUT; exactly one once the
\* store update has returned its result (with the order id), none when the
\* call ended before that; after a failed attempt no further PUT is sent.
C5_SingleAttempt ==
    \A t \in Threads :
        /\ th[t].sent <= 1
        /\ (ProcessDone(t) /\ th[t].upd.has_order) => th[t].sent = 1
        /\ (ProcessDone(t) /\ ~th[t].upd.has_order) => th[t].sent = 0
        /\ (Notified(t) /\ FailedNotification(th[t].outcome))
              => th[t].pc = "done" /\ th[t].sent = 1

C5_Witness ==
    \E t \in Threads :
        /\ ProcessDone(t)
        /\ Notified(t)
        /\ th[t].outcome.kind = "timeout"
        /\ th[t].sent = 1

\* C6 as stated: process_payment on an existing unpaid payment answers
\* is_paid = true whatever card_data the request carried; no value of
\* card_data keeps the store update from running.
C6_AnyCardDataIsPaid ==
    \A t \in Threads :
        (/\ ProcessDone(t) /\ th[t].pre = "unpaid" /\ th[t].card # "none"
         /\ th[t].ctl # "cancelled")
        => /\ th[t].resp.status = 200
           /\ th[t].resp.body.kind = "result"
           /\ th[t].resp.body.is_paid
           /\ payments[th[t].pid].is_paid

\* C7 as stated: POST /payments answers 201 with {payment_id} or 400 with
\* {error}; when the store's create returns a non-numeric result or raises,
\* the status is 400; 201 never comes with an error body.
C7_CreateStatusMatchesBody ==
    \A t \in Threads :
        (th[t].pc = "done" /\ th[t].op = "add")
        => /\ th[t].resp.status \in {201, 400}
           /\ th[t].resp.status = 201 <=> th[t].resp.body.kind = "payment_id"
           /\ th[t].resp.status = 400 <=> th[t].resp.body.kind = "error"

\* C8 as stated: GET /payments/<id> for an id the store does not hold answers
\* 404 with an error body, whether the store raises or returns an empty
\* value.  (An id unknown now was unknown when the request was served:
\* payments are never removed.)
C8_UnknownIdIs404 ==
    \A t \in Threads :
        (/\ th[t].pc = "done" /\ th[t].op = "get"
         /\ th[t].pid \notin 1..Len(payments))
        => /\ th[t].resp.status = 404
           /\ th[t].resp.body.kind = "error"

\* C9: a valid creation payload gets a positive integer id; a later
\* get_payment of an id add_payment has returned, with no process_payment
\* having marked it in between, returns the payload's order id, user id and
\* amount with paid = false; two add_payment calls never return the same id.
C9_CreateThenGet ==
    /\ \A t \in Threads :
          (th[t].pc = "done" /\ th[t].op = "add" /\ ValidPayload(th[t].body))
          => /\ th[t].resp.status = 201
             /\ th[t].resp.body.kind = "payment_id"
             /\ th[t].resp.body.payment_id \in Nat \ {0}
             /\ th[t].resp.body.payment_id \in 1..Len(payments)
    /\ \A t \in Threads :
          (/\ th[t].pc = "done" /\ th[t].op = "get"
           /\ th[t].pre # "unknown"
           /\ flips[th[t].pid] = 0)
          => /\ th[t].resp.status = 200
             /\ th[t].resp.body =
                  [kind |-> "payment", payment_id |-> th[t].pid,
                   order_id |-> created[th[t].pid].order_id,
                   user_id |-> created[th[t].pid].user_id,
                   total_amount |-> created[th[t].pid].total_amount,
                   is_paid |-> FALSE]
    /\ \A t, u \in Threads :
          (/\ t # u
           /\ th[t].pc = "done" /\ th[t].op = "add"
           /\ th[u].pc = "done" /\ th[u].op = "add"
           /\ th[t].resp.body.kind = "payment_id"
           /\ th[u].resp.body.kind = "payment_id")
          => th[t].resp.body.payment_id # th[u].resp.body.payment_id
    /\ Len(created) = Len(payments)

C9_Witness ==
    \E t, u \in Threads :
        /\ th[t].pc = "done" /\ th[t].op = "add"
        /\ th[t].resp.body.kind = "payment_id"
        /\ th[t].resp.body.payment_id = 2
        /\ th[u].pc = "done" /\ th[u].op = "get"
        /\ th[u].pid = 1
        /\ th[u].resp.status = 200
        /\ th[u].resp.body.kind = "payment"
        /\ th[u].resp.body.order_id = created[1].order_id
        /\ ~th[u].resp.body.is_paid

\* The step is worker t's store update of process_payment on payment id.
UpdateStepOf(t, id) ==
    /\ th[t].pc = "idle"
    /\ th'[t].op = "process" /\ th'[t].pid = id /\ th'[t].pc = "notify"

\* C10: the paid flag is false at creation, changes only through
\* process_payment and only from false to true: a paid payment stays paid, a
\* payment is never removed, and each process_payment whose store update
\* succeeds on an unpaid payment makes exactly one false-to-true transition.
C10_PaidOnlyRises ==
    /\ [](\A id \in 1..Len(payments) :
            /\ flips[id] \in {0, 1}
            /\ payments[id].is_paid <=> flips[id] = 1)
    /\ [][/\ Len(payments') >= Len(payments)
          /\ \A id \in 1..Len(payments') :
                IF id \in 1..Len(payments)
                THEN /\ payments[id].is_paid => payments'[id].is_paid
                     /\ payments'[id].is_paid # payments[id].is_paid
                          => \E t \in Threads : UpdateStepOf(t, id)
                     /\ \A t \in Threads :
                          (UpdateStepOf(t, id) /\ ~payments[id].is_paid)
                          => /\ payments'[id].is_paid
                             /\ flips'[id] = flips[id] + 1
                ELSE ~payments'[id].is_paid
       ]_vars

C10_Witness ==
    \E t \in Threads :
        /\ ProcessDone(t)
        /\ th[t].pre = "unpaid"
        /\ Notified(t) /\ FailedNotification(th[t].outcome)
        /\ payments[th[t].pid].is_paid
        /\ flips[th[t].pid] = 1

\* The charge simulation of worker t's process_payment call returned, so the
\* call went on to the store.
ChargePassed(t) == th[t].op = "process" /\ th[t].card = "charged"

\* C11: process_payment runs the charge simulation, then the store update,
\* then the notification, with no rollback: a PUT has left only if the charge
\* passed and the update has returned its result, and a payment the update
\* has marked is paid in the store from then on, however the notification
\* ends (failed response, timeout, fault, interruption).
C11_UpdateThenNotifyNoRollback ==
    \A t \in Threads :
        /\ th[t].sent > 0 =>
             /\ ChargePassed(t)
             /\ th[t].upd.has_order
             /\ th[t].upd.payment_id = th[t].pid
        /\ (th[t].op = "process" /\ th[t].upd.is_paid) =>
             /\ th[t].pid \in 1..Len(payments)
             /\ payments[th[t].pid].is_paid

C11_Witness ==
    \E t, u \in Threads :
        /\ ProcessDone(t) /\ th[t].ctl = "cancelled" /\ th[t].sent = 1
        /\ th[t].upd.is_paid
        /\ payments[th[t].pid].is_paid
        /\ ProcessDone(u) /\ th[u].outcome.kind = "timeout"
        /\ th[u].upd.is_paid
        /\ th[u].pid # th[t].pid
        /\ payments[th[u].pid].is_paid

\* C12: re-processing is not guarded.  A process_payment call on a payment
\* that is already paid, once past the charge simulation and unless it is
\* interrupted, sends its own PUT, leaves the payment paid (no new
\* transition) and answers 200 with is_paid = true; so each of N such calls
\* makes one notification attempt.
C12_ReprocessNotGuarded ==
    \A t \in Threads :
        (ChargePassed(t) /\ th[t].pre = "paid") =>
           /\ payments[th[t].pid].is_paid
           /\ flips[th[t].pid] = 1
           /\ th[t].upd.has_order /\ th[t].upd.is_paid
           /\ th[t].pc \in {"await", "done"} => th[t].sent = 1
           /\ (th[t].pc = "done" /\ th[t].ctl # "cancelled") =>
                /\ th[t].resp.status = 200
                /\ th[t].resp.body.kind = "result"
                /\ th[t].resp.body.is_paid

C12_Witness ==
    \E t, u \in Threads :
        /\ t # u
        /\ ProcessDone(t) /\ ProcessDone(u)
        /\ th[t].pid = th[u].pid
        /\ th[t].pre = "paid" /\ th[u].pre = "paid"
        /\ th[t].sent = 1 /\ th[u].sent = 1
        /\ th[t].resp.status = 200 /\ th[t].resp.body.is_paid
        /\ th[u].resp.status = 200 /\ th[u].resp.body.is_paid

\* The boolean the PUT outcome stands for (200, 201 and 204 are successes).
Succeeded(outcome) ==
    outcome.kind = "response" /\ outcome.status \in {200, 201, 204}

\* Worker t's process_payment call on an existing payment is past the store
\* update and carries that payment's values, not another call's: its update
\* result, its PUT and its answer name its own payment and that payment's
\* order, and store_notified is the outcome of its own PUT.
CarriesOwn(t) ==
    /\ payments[th[t].pid].is_paid
    /\ th[t].upd.payment_id = th[t].pid
    /\ th[t].upd.order_id = payments[th[t].pid].order_id
    /\ th[t].sent > 0 => th[t].put.order_id = payments[th[t].pid].order_id
    /\ (th[t].pc = "done" /\ Notified(t)) =>
         /\ th[t].resp.status = 200
         /\ th[t].resp.body.kind = "result"
         /\ th[t].resp.body.payment_id = th[t].pid
         /\ th[t].resp.body.order_id = payments[th[t].pid].order_id
         /\ th[t].resp.body.store_notified = Succeeded(th[t].outcome)

\* C13: in every interleaving of two process_payment calls on different
\* existing payments (both past the charge simulation), each call's result
\* carries its own order_id, payment_id and notification outcome, and both
\* payments are marked paid.
C13_ConcurrentCallsIndependent ==
    \A t, u \in Threads :
        (/\ t # u
         /\ ChargePassed(t) /\ ChargePassed(u)
         /\ th[t].pre # "unknown" /\ th[u].pre # "unknown"
         /\ th[t].pid # th[u].pid)
        => CarriesOwn(t) /\ CarriesOwn(u)

C13_Witness ==
    \E t, u \in Threads :
        /\ t # u
        /\ ProcessDone(t) /\ ProcessDone(u)
        /\ th[t].pid # th[u].pid
        /\ th[t].resp.status = 200 /\ th[u].resp.status = 200
        /\ th[t].resp.body.order_id # th[u].resp.body.order_id
        /\ th[t].resp.body.store_notified
        /\ ~th[u].resp.body.store_notified
        /\ th[t].resp.body.is_paid /\ th[u].resp.body.is_paid
        /\ payments[th[t].pid].is_paid /\ payments[th[u].pid].is_paid

\* C14: when the store update of a process_payment call raises, or returns a
\* result that carries no order id, the call ends there: no PUT is built or
\* sent, the fault is answered with 400 and an error body, and the worker is
\* left able to serve the next request.
C14_FailedUpdateIs400 ==
    \A t \in Threads :
        (ChargePassed(t) /\ ~th[t].upd.has_order) =>
           /\ th[t].pc = "done"
           /\ th[t].sent = 0 /\ th[t].put = NoPut
           /\ th[t].outcome = NoOutcome
           /\ th[t].ctl = "raise"
           /\ th[t].resp.status = 400
           /\ th[t].resp.body = ErrorBody
           /\ ENABLED Finish(t)

C14_Witness ==
    \E t \in Threads :
        /\ ProcessDone(t) /\ ChargePassed(t)
        /\ th[t].pre = "unknown"
        /\ ~th[t].upd.has_order
        /\ th[t].sent = 0
        /\ th[t].resp.status = 400

\* C15: the order system is told paid only when the store marked the payment:
\* whenever a PUT with is_paid = true has left for a call, the store's update
\* of that call returned is_paid = true.
C15_PaidPutMeansMarked ==
    \A t \in Threads :
        (th[t].sent > 0 /\ th[t].put.is_paid) => th[t].upd.is_paid

C17_ResultIsUpdateResult ==
    \A t \in Threads :
        /\ th[t].sent > 0 =>
             th[t].put = [order_id |-> th[t].upd.order_id, is_paid |-> TRUE]
        /\ (ProcessDone(t) /\ Notified(t)) =>
             /\ th[t].resp.status = 200
             /\ th[t].resp.body.order_id = th[t].upd.order_id
             /\ th[t].resp.body.payment_id = th[t].upd.payment_id
             /\ th[t].resp.body.is_paid = th[t].upd.is_paid
        /\ (ChargePassed(t) /\ th[t].pre # "unknown") =>
             /\ th[t].upd.payment_id = th[t].pid
             /\ th[t].upd.order_id = created[th[t].pid].order_id
             /\ th[t].upd.is_paid

C17_Witness ==
    \E t, u \in Threads :
        /\ ProcessDone(t) /\ ProcessDone(u)
        /\ th[t].pid = 2 /\ th[u].pid = 2
        /\ th[t].pre = "unpaid" /\ th[u].pre = "paid"
        /\ Succeeded(th[t].outcome)
        /\ th[u].outcome.kind = "connection_error"
        /\ th[t].put = [order_id |-> created[2].order_id, is_paid |-> TRUE]
        /\ th[t].put = th[u].put
        /\ th[t].resp.body.order_id = created[2].order_id
        /\ th[u].resp.body.order_id = created[2].order_id
        /\ th[t].resp.body.is_paid /\ th[u].resp.body.is_paid

\* The step is worker t answering a GET /payments/<id>.
GetStepOf(t) == th[t].pc = "idle" /\ th'[t].op = "get"

\* The step is worker t answering a POST /payments.
AddStepOf(t) == th[t].pc = "idle" /\ th'[t].op = "add"

\* The payment records of `pay` apart from their paid flags.
Unflagged(pay) ==
    [id \in DOMAIN pay |->
       [order_id |-> pay[id].order_id, user_id |-> pay[id].user_id,
        total_amount |-> pay[id].total_amount]]

\* C18: frame of the operations.  No step removes a payment or changes the
\* order id, user id or amount of one; a get_payment step changes no payment
\* and sends or delivers no notification; an add_payment step changes no
\* existing payment; and a paid flag changes only in the store update of a
\* process_payment call on that very payment.
C18_Frame ==
    [][/\ Len(payments') >= Len(payments)
       /\ SubSeq(Unflagged(payments'), 1, Len(payments)) = Unflagged(payments)
       /\ \A id \in 1..Len(payments) :
            payments'[id].is_paid # payments[id].is_paid
            => \E t \in Threads : UpdateStepOf(t, id)
       /\ \A t \in Threads :
            /\ GetStepOf(t) =>
                 /\ payments' = payments
                 /\ delivered' = delivered
                 /\ \A u \in Threads : th'[u].sent = th[u].sent
            /\ AddStepOf(t) =>
                 SubSeq(payments', 1, Len(payments)) = payments
            /\ UpdateStepOf(t, th'[t].pid) =>
                 /\ Len(payments') = Len(payments)
                 /\ \A id \in 1..Len(payments) :
                      id # th'[t].pid => payments'[id] = payments[id]
      ]_vars

C18_Witness ==
    \E t, u \in Threads :
        /\ Len(payments) = 2
        /\ ProcessDone(t) /\ th[t].pid = 1 /\ th[t].pre = "unpaid"
        /\ th[t].upd.is_paid
        /\ payments[1].is_paid
        /\ ~payments[2].is_paid
        /\ Unflagged(payments) = Unflagged(created)
        /\ th[u].pc = "done" /\ th[u].op = "get" /\ th[u].pid = 2

====
